---- MODULE Spec2Model ----
(***************************************************************************)
(* Model of the ZANJ archive loader, src/muutils/zanj/loading.py:          *)
(* LoadedZANJ (the facade), ZANJLoaderTreeNode (the proxy view over the    *)
(* main JSON tree), LazyExternalLoader (the lazy external store), the      *)
(* per-type load functions and the loader-handler chain.                   *)
(*                                                                         *)
(* Python strings that the code takes apart (external keys, member names,  *)
(* format tags) are sequences of characters/tokens; dictionary keys of the *)
(* main tree are atomic strings.  A Python exception is the string naming  *)
(* its class and the place that raises it.                                 *)
(***************************************************************************)
EXTENDS Integers, Sequences, FiniteSets, TLC

VARIABLES archive, inst, loader, cursor, last, closeCalls

vars == <<archive, inst, loader, cursor, last, closeCalls>>

-----------------------------------------------------------------------------
(* Bounds of the model *)

\* most entries in the metadata's externals_info
MaxExternals == 2
\* most calls of close() in one behaviour
MaxClose == 2

-----------------------------------------------------------------------------
(* JSON items and loaded values *)

None == [kind |-> "none"]
Num(n) == [kind |-> "num", n |-> n]
Str(s) == [kind |-> "str", s |-> s]
Dict(f) == [kind |-> "dict", items |-> f]
List(q) == [kind |-> "list", items |-> q]
NDArray(data, dtype, shape) ==
    [kind |-> "ndarray", data |-> data, dtype |-> dtype, shape |-> shape]

\* isinstance(val, (dict, list))
IsContainer(v) == v.kind \in {"dict", "list"}

\* a key handed to __getitem__: a str or an int
StrKey(s) == [t |-> "str", s |-> s, i |-> 0]
IntKey(i) == [t |-> "int", s |-> "", i |-> i]

\* the external keys and item types the archives draw from
ExtKeys == {<<"a">>, <<"a", "b">>}
UndeclaredKey == <<"z">>
ItemTypes == {"ndarray", "jsonl", "blob"}

\* muutils.zanj.externals.EXTERNAL_ITEMS_EXTENSIONS
EXTERNAL_ITEMS_EXTENSIONS == [ndarray |-> "npy", jsonl |-> "jsonl"]

\* f"{key}.{EXTERNAL_ITEMS_EXTENSIONS[item_type]}"
MemberName(key, item_type) == key \o <<".", EXTERNAL_ITEMS_EXTENSIONS[item_type]>>

-----------------------------------------------------------------------------
(* The archives on disk *)

\* {"$ref": key}: the token the tree node dereferences
Ref(key) == Dict("$ref" :> Str(key))

\* {"__format__": "array_list_meta", "data": [1, 2], "dtype": "uint8", "shape": [2]}
TaggedList ==
    Dict("__format__" :> Str(<<"array_list_meta">>)
         @@ "data" :> List(<<Num(1), Num(2)>>)
         @@ "dtype" :> Str(<<"uint8">>)
         @@ "shape" :> List(<<Num(2)>>))

\* {"__format__": "array_hex_meta", "data": "0102", "dtype": "uint8", "shape": [2]}
TaggedHex ==
    Dict("__format__" :> Str(<<"array_hex_meta">>)
         @@ "data" :> Str(<<"0", "1", "0", "2">>)
         @@ "dtype" :> Str(<<"uint8">>)
         @@ "shape" :> List(<<Num(2)>>))

\* {"__format__": "external:ndarray", "key": "a"}: what the first ZANJ handler accepts
TaggedExternal ==
    Dict("__format__" :> Str(<<"external:", "ndarray">>) @@ "key" :> Str(<<"a">>))

\* the main documents (ZANJ_MAIN) the archives draw from
Mains ==
    << Dict("x" :> Num(1)
            @@ "arr" :> Ref(<<"a">>)
            @@ "lst" :> List(<<Num(2), Ref(<<"a", "b">>)>>)
            @@ "h" :> TaggedHex),
       List(<<Ref(UndeclaredKey), TaggedList, Str(<<"s">>)>>),
       Num(5),
       Dict("$ref" :> Str(<<"a">>) @@ "e" :> TaggedExternal),
       Dict("$ref" :> Num(7) @@ "n" :> None) >>

\* externals_info of the metadata document, in document order:
\* a sequence of (key, item_type) entries with distinct keys
InfoTables ==
    {q \in UNION {[1..n -> [key : ExtKeys, item_type : ItemTypes]] : n \in 0..MaxExternals} :
        \A i, j \in 1..Len(q) : i # j => q[i].key # q[j].key}

InfoKeys(info) == {info[i].key : i \in 1..Len(info)}
\* externals_info[key]["item_type"]
InfoType(info, key) == info[CHOOSE i \in 1..Len(info) : info[i].key = key].item_type

\* the member names some path of the code can ask the archive for
RelevantNames(info) ==
    UNION {{info[i].key}
           \cup (IF info[i].item_type \in DOMAIN EXTERNAL_ITEMS_EXTENSIONS
                 THEN {MemberName(info[i].key, info[i].item_type)} ELSE {})
           \cup (IF Len(info[i].key) = 2 THEN {<<info[i].key[1]>>} ELSE {})
           : i \in 1..Len(info)}

\* archives whose control documents are readable: every table, every set of
\* external members, at most one of them with an unreadable payload
GoodArchives ==
    UNION {UNION {{[openable |-> TRUE, meta |-> "ok", main |-> "ok", mainId |-> m,
                    info |-> q, members |-> ms, corrupt |-> c] :
                        m \in 1..Len(Mains), c \in {{}} \cup {{x} : x \in ms}} :
                  ms \in SUBSET RelevantNames(q)} :
           q \in InfoTables}

\* archives that fail before the externals are looked at
BrokenArchives ==
    {[openable |-> o, meta |-> me, main |-> ma, mainId |-> 1,
      info |-> <<>>, members |-> {}, corrupt |-> {}] :
        o \in BOOLEAN, me \in {"ok", "absent", "malformed", "noinfo"},
        ma \in {"ok", "absent", "malformed"}}

Archives == GoodArchives \cup BrokenArchives

-----------------------------------------------------------------------------
(* Archive members and the per-type load functions *)

\* what the bytes of member m are: by its extension, or, for a member named by
\* a bare key, by the item type the metadata declares for that key
Content(a, m) ==
    IF m \in a.corrupt THEN "junk"
    ELSE IF m[Len(m)] \in {"npy", "jsonl"} THEN m[Len(m)]
    ELSE IF m \in InfoKeys(a.info)
              /\ InfoType(a.info, m) \in DOMAIN EXTERNAL_ITEMS_EXTENSIONS
         THEN EXTERNAL_ITEMS_EXTENSIONS[InfoType(a.info, m)]
    ELSE "junk"

Return(v) == [exc |-> "", val |-> v]
Raise(e) == [exc |-> e, val |-> None]

\* load_ndarray: np.load(fp)
load_ndarray(a, m) ==
    IF Content(a, m) = "npy"
    THEN Return(NDArray(<<Len(m)>>, "uint8", <<1>>))
    ELSE Raise("ValueError: np.load")

\* load_jsonl: [json.loads(line) for line in fp]
load_jsonl(a, m) ==
    IF Content(a, m) = "jsonl"
    THEN Return(List(<<Num(Len(m)), Str(m)>>))
    ELSE Raise("JSONDecodeError: jsonl line")

\* EXTERNAL_LOAD_FUNCS[item_type](zanj, fp), fp the open member m
EXTERNAL_LOAD_FUNCS(item_type, a, m) ==
    CASE item_type = "ndarray" -> load_ndarray(a, m)
      [] item_type = "jsonl" -> load_jsonl(a, m)
      [] OTHER -> Raise("KeyError: EXTERNAL_LOAD_FUNCS")

-----------------------------------------------------------------------------
(* LazyExternalLoader *)

NoLoader == [status |-> "none", exc |-> "", types |-> <<>>]

\* the dict comprehension of __init__: val.item_type of every entry.
\* repr = "json": the entries are dicts, as json.load yields them;
\* repr = "item": the entries are objects with an item_type attribute
ExternalsTypes(a, repr) ==
    IF a.meta = "noinfo" THEN Raise("KeyError: externals_info")
    ELSE IF repr = "json" /\ Len(a.info) > 0
    THEN Raise("AttributeError: dict has no attribute item_type")
    ELSE Return([k \in InfoKeys(a.info) |-> InfoType(a.info, k)])

\* the validation loop of __init__, from entry i on: "" or the exception
RECURSIVE ValidateExternals(_, _)
ValidateExternals(a, i) ==
    IF i > Len(a.info) THEN ""
    ELSE IF a.info[i].item_type \notin DOMAIN EXTERNAL_ITEMS_EXTENSIONS
    THEN "KeyError: EXTERNAL_ITEMS_EXTENSIONS"
    ELSE IF MemberName(a.info[i].key, a.info[i].item_type) \notin a.members
    THEN "ValueError: external file not found in archive"
    ELSE ValidateExternals(a, i + 1)

\* LazyExternalLoader(zipf, zanj_meta, loaded_zanj)
LazyExternalLoader(a, repr) ==
    LET t == ExternalsTypes(a, repr)
        v == ValidateExternals(a, 1)
    IN  IF t.exc # "" THEN [status |-> "raise", exc |-> t.exc, types |-> <<>>]
        ELSE IF v # "" THEN [status |-> "raise", exc |-> v, types |-> <<>>]
        ELSE [status |-> "ok", exc |-> "", types |-> t.val]

\* what one access of an external store did: the exception or the value, the
\* members it asked the archive for, and the payloads it decoded
StoreResult(exc, val, opens, decoded) ==
    [exc |-> exc, val |-> val, opens |-> opens, decoded |-> decoded]

\* LazyExternalLoader.__getitem__(key)
LazyGetItem(types, a, key) ==
    IF key \in DOMAIN types
    THEN IF Len(key) # 2
         THEN StoreResult("ValueError: unpack path, item_type = key", None, <<>>, 0)
         ELSE LET path == <<key[1]>>
                  item_type == key[2]
              IN  IF path \notin a.members
                  THEN StoreResult("KeyError: no item named in archive", None,
                                   <<[key |-> key, name |-> path]>>, 0)
                  ELSE IF item_type \notin {"ndarray", "jsonl"}
                  THEN StoreResult("KeyError: EXTERNAL_LOAD_FUNCS", None,
                                   <<[key |-> key, name |-> path]>>, 0)
                  ELSE StoreResult("NameError: loaded_zanj", None,
                                   <<[key |-> key, name |-> path]>>, 0)
    ELSE StoreResult("", None, <<>>, 0)


-----------------------------------------------------------------------------
(* LoadedZANJ.__init__ *)

NoExternals == [kind |-> "none", tab |-> <<>>, types |-> <<>>]

\* the object before construction
NoInstance ==
    [status |-> "none", exc |-> "", mode |-> "", zipf |-> "none",
     json_data |-> None, externals |-> NoExternals, opens |-> <<>>, decoded |-> 0]

\* how __init__ ended: the exception it raised if any, the zip handle, and the
\* attributes assigned so far
Instance(status, exc, mode, zipf, json_data, externals, opens, decoded) ==
    [status |-> status, exc |-> exc, mode |-> mode, zipf |-> zipf,
     json_data |-> json_data, externals |-> externals,
     opens |-> opens, decoded |-> decoded]

\* the member the eager loop opens for an entry of externals_info
FullMemberName(fname, item_type) == fname

\* the "full" branch: for fname, val in externals_info.items(), from entry i on
RECURSIVE FullLoad(_, _, _, _, _)
FullLoad(a, i, tab, opens, decoded) ==
    IF i > Len(a.info) THEN [exc |-> "", tab |-> tab, opens |-> opens, decoded |-> decoded]
    ELSE LET fname == a.info[i].key
             item_type == a.info[i].item_type
             name == FullMemberName(fname, item_type)
             opens2 == Append(opens, [key |-> fname, name |-> name])
             r == EXTERNAL_LOAD_FUNCS(item_type, a, name)
         IN  IF name \notin a.members
             THEN [exc |-> "KeyError: no item named in archive", tab |-> tab,
                   opens |-> opens2, decoded |-> decoded]
             ELSE IF item_type \notin {"ndarray", "jsonl"}
             THEN [exc |-> r.exc, tab |-> tab, opens |-> opens2, decoded |-> decoded]
             ELSE IF r.exc # ""
             THEN [exc |-> r.exc, tab |-> tab, opens |-> opens2, decoded |-> decoded + 1]
             ELSE FullLoad(a, i + 1, (fname :> r.val) @@ tab, opens2, decoded + 1)

\* what the call LazyExternalLoader(zipf=..., zanj_meta=...) of __init__ does:
\* the required parameter loaded_zanj is not passed
LazyBranch(a) == [exc |-> "TypeError: missing argument loaded_zanj",
                  externals |-> NoExternals, opens |-> <<>>, decoded |-> 0]

FullBranch(a) ==
    IF a.meta = "noinfo"
    THEN [exc |-> "KeyError: externals_info",
          externals |-> [kind |-> "dict", tab |-> <<>>, types |-> <<>>],
          opens |-> <<>>, decoded |-> 0]
    ELSE LET r == FullLoad(a, 1, <<>>, <<>>, 0)
         IN  [exc |-> r.exc,
              externals |-> [kind |-> "dict", tab |-> r.tab, types |-> <<>>],
              opens |-> r.opens, decoded |-> r.decoded]

\* the zip handle when __init__ raises after zipfile.ZipFile(...) returned
ZipfAfterFailure == "open"

\* LoadedZANJ(path, zanj, loader_handlers, externals_mode); loader_handlers is
\* not stored and not used
LoadedZANJ(a, mode) ==
    IF ~a.openable
    THEN Instance("raise", "BadZipFile", mode, "none", None, NoExternals, <<>>, 0)
    ELSE IF a.meta = "absent"
    THEN Instance("raise", "KeyError: no item named ZANJ_META", mode,
                  ZipfAfterFailure, None, NoExternals, <<>>, 0)
    ELSE IF a.meta = "malformed"
    THEN Instance("raise", "JSONDecodeError: ZANJ_META", mode,
                  ZipfAfterFailure, None, NoExternals, <<>>, 0)
    ELSE IF a.main = "absent"
    THEN Instance("raise", "KeyError: no item named ZANJ_MAIN", mode,
                  ZipfAfterFailure, None, NoExternals, <<>>, 0)
    ELSE IF a.main = "malformed"
    THEN Instance("raise", "JSONDecodeError: ZANJ_MAIN", mode,
                  ZipfAfterFailure, None, NoExternals, <<>>, 0)
    ELSE LET b == IF mode = "lazy" THEN LazyBranch(a) ELSE FullBranch(a)
         IN  IF b.exc # ""
             THEN Instance("raise", b.exc, mode, ZipfAfterFailure,
                           Mains[a.mainId], b.externals, b.opens, b.decoded)
             ELSE Instance("ok", "", mode, "open",
                           Mains[a.mainId], b.externals, b.opens, b.decoded)

-----------------------------------------------------------------------------
(* ZANJLoaderTreeNode *)

IsStrKey(key, s) == key.t = "str" /\ key.s = s

\* what a __getitem__ of a tree node did: the exception or the value, whether
\* the value came back wrapped in a new tree node, how many times the
\* container was indexed, how many times the external store was asked, and
\* the members the store asked the archive for
GetResult(exc, val, wrapped, lookups, derefs, opens) ==
    [exc |-> exc, val |-> val, wrapped |-> wrapped,
     lookups |-> lookups, derefs |-> derefs, opens |-> opens]

\* self._data[key] for a dict or a list
Index(data, key) ==
    IF data.kind = "dict"
    THEN IF key.s \in DOMAIN data.items
         THEN Return(data.items[key.s]) ELSE Raise("KeyError: key")
    ELSE IF key.i >= 0 /\ key.i < Len(data.items)
         THEN Return(data.items[key.i + 1])
    ELSE IF key.i < 0 /\ key.i >= -Len(data.items)
         THEN Return(data.items[Len(data.items) + key.i + 1])
    ELSE Raise("IndexError: list index out of range")

\* self._parent._externals[val]
ExternalsGetItem(externals, a, val) ==
    IF externals.kind = "dict"
    THEN IF val.kind \in {"dict", "list"}
         THEN StoreResult("TypeError: unhashable type", None, <<>>, 0)
         ELSE IF val.kind = "str" /\ val.s \in DOMAIN externals.tab
         THEN StoreResult("", externals.tab[val.s], <<>>, 0)
         ELSE StoreResult("KeyError: externals", None, <<>>, 0)
    ELSE IF externals.kind = "lazy"
    THEN IF val.kind \in {"dict", "list"}
         THEN StoreResult("TypeError: unhashable type", None, <<>>, 0)
         ELSE IF val.kind = "str" THEN LazyGetItem(externals.types, a, val.s)
         ELSE StoreResult("", None, <<>>, 0)
    ELSE StoreResult("AttributeError: _externals", None, <<>>, 0)

\* the key-type check with the key's type left out
KeyTypeOk_AnyKey(data, key) == data.kind \in {"list", "dict"}

\* the key-type check of __getitem__
KeyTypeOk(data, key) ==
    \/ data.kind = "list" /\ key.t = "int"
    \/ data.kind = "dict" /\ key.t = "str"

\* the test that decides whether __getitem__ asks the external store
IsDeref(data, key) == IsStrKey(key, "$ref")

\* ZANJLoaderTreeNode.__getitem__(key), _data = data, _parent._externals = externals
TreeGetItem(externals, a, data, key) ==
    IF ~KeyTypeOk(data, key)
    THEN GetResult("KeyError: invalid key type", None, FALSE, 0, 0, <<>>)
    ELSE LET v == Index(data, key)
         IN  IF v.exc # "" THEN GetResult(v.exc, None, FALSE, 1, 0, <<>>)
             ELSE IF IsDeref(data, key)
             THEN LET e == ExternalsGetItem(externals, a, v.val)
                  IN  IF e.exc # "" THEN GetResult(e.exc, None, FALSE, 1, 1, e.opens)
                      ELSE GetResult("", e.val, IsContainer(e.val), 1, 1, e.opens)
             ELSE GetResult("", v.val, IsContainer(v.val), 2, 0, <<>>)

\* iter(self._data): the keys of a dict (as a set: their order is the
\* document's), the elements of a list
TreeIter(data) ==
    IF data.kind = "dict" THEN Return([kind |-> "keys", keys |-> DOMAIN data.items])
    ELSE IF data.kind = "list" THEN Return([kind |-> "elements", items |-> data.items])
    ELSE Raise("TypeError: object is not iterable")

\* len(self._data)
TreeLen(data) ==
    IF data.kind = "dict" THEN Return(Num(Cardinality(DOMAIN data.items)))
    ELSE IF data.kind = "list" THEN Return(Num(Len(data.items)))
    ELSE Raise("TypeError: object has no len()")


-----------------------------------------------------------------------------
(* The loader handlers *)

\* json_item["__format__"] of a dict that has the key
Format(v) == v.items["__format__"]

\* s.startswith(prefix)
StartsWith(s, prefix) ==
    Len(s) >= Len(prefix) /\ SubSeq(s, 1, Len(prefix)) = prefix

HexVal ==
    "0" :> 0 @@ "1" :> 1 @@ "2" :> 2 @@ "3" :> 3 @@ "4" :> 4 @@ "5" :> 5
    @@ "6" :> 6 @@ "7" :> 7 @@ "8" :> 8 @@ "9" :> 9 @@ "a" :> 10 @@ "b" :> 11
    @@ "c" :> 12 @@ "d" :> 13 @@ "e" :> 14 @@ "f" :> 15

\* bytes.fromhex(s), for a string of an even number of hex digits
FromHex(s) == [i \in 1..(Len(s) \div 2) |-> 16 * HexVal[s[2 * i - 1]] + HexVal[s[2 * i]]]

\* one element of an array of the dtype, from a number or a byte
ToDtype(dtype, n) ==
    IF dtype = <<"int8">> THEN ((n + 128) % 256) - 128 ELSE n % 256

RECURSIVE Product(_)
Product(q) == IF q = <<>> THEN 1 ELSE Head(q) * Product(Tail(q))

\* np.array(elems, dtype).reshape(shape)
Reshape(elems, dtype, shape) ==
    LET dims == [i \in 1..Len(shape.items) |-> shape.items[i].n]
    IN  IF Product(dims) = Len(elems)
        THEN Return(NDArray([i \in 1..Len(elems) |-> ToDtype(dtype.s, elems[i])], dtype.s, dims))
        ELSE Raise("ValueError: cannot reshape array")

\* the handlers of DEFAULT_LOADER_HANDLERS_ZANJ, in order
DEFAULT_LOADER_HANDLERS_ZANJ == <<"external", "array_list_meta", "array_hex_meta">>

\* handler.check(zanj, json_item, path)
HandlerCheck(h, v) ==
    /\ v.kind = "dict"
    /\ "__format__" \in DOMAIN v.items
    /\ Format(v).kind = "str"
    /\ IF h = "external" THEN StartsWith(Format(v).s, <<"external:">>)
       ELSE Format(v).s = <<h>>

\* handler.load(zanj, json_item, path), for an item the handler accepts
HandlerLoad(h, externals, a, v) ==
    IF h = "external"
    THEN IF "key" \in DOMAIN v.items
         THEN LET e == ExternalsGetItem(externals, a, v.items["key"])
              IN  [exc |-> e.exc, val |-> e.val]
         ELSE Raise("KeyError: key")
    ELSE IF ~({"data", "dtype", "shape"} \subseteq DOMAIN v.items)
    THEN Raise("KeyError: key")
    ELSE IF h = "array_list_meta"
    THEN Reshape([i \in 1..Len(v.items["data"].items) |-> v.items["data"].items[i].n],
                 v.items["dtype"], v.items["shape"])
    ELSE Reshape(FromHex(v.items["data"].s), v.items["dtype"], v.items["shape"])


-----------------------------------------------------------------------------
(* State and operations *)

\* archive    : the archive file on disk
\* inst       : the LoadedZANJ object, as __init__ left it
\* loader     : a LazyExternalLoader constructed on its own over the archive
\* cursor     : the tree node the caller holds, with the keys that led to it
\*              (path <<>>: the caller holds only the LoadedZANJ)
\* last       : the last call (the operation, the node it was made on and its
\*              key) and how it ended
\* closeCalls : how many times close() was called on the LoadedZANJ

StrKeys == {"x", "arr", "lst", "h", "e", "n", "$ref", "data", "nokey"}
IntKeys == {-1, 0, 1, 3}
Keys == {StrKey(s) : s \in StrKeys} \cup {IntKey(i) : i \in IntKeys}
StoreKeys == ExtKeys \cup {UndeclaredKey}
Modes == {"lazy", "full"}

NoKey == StrKey("")

Call(op, path, data, key, ekey, r) ==
    [op |-> op, path |-> path, data |-> data, key |-> key, ekey |-> ekey,
     exc |-> r.exc, val |-> r.val, wrapped |-> r.wrapped,
     lookups |-> r.lookups, derefs |-> r.derefs, opens |-> r.opens]

Plain(exc, val) == GetResult(exc, val, FALSE, 0, 0, <<>>)

Init ==
    /\ archive \in Archives
    /\ inst = NoInstance
    /\ loader = NoLoader
    /\ cursor = [path |-> <<>>, data |-> None]
    /\ last = Call("none", <<>>, None, NoKey, <<>>, Plain("", None))
    /\ closeCalls = 0

\* LoadedZANJ(path, zanj, loader_handlers, externals_mode = mode)
Open(mode) ==
    /\ inst.status = "none" /\ loader.status = "none"
    /\ inst' = LoadedZANJ(archive, mode)
    /\ last' = Call("open", <<>>, None, NoKey, <<>>, Plain(inst'.exc, None))
    /\ UNCHANGED <<archive, loader, cursor, closeCalls>>

\* LazyExternalLoader(zipf, zanj_meta, loaded_zanj), by a caller that opened
\* the archive and parsed its metadata itself
NewLazyLoader(repr) ==
    /\ inst.status = "none" /\ loader.status = "none"
    /\ archive.openable /\ archive.meta \in {"ok", "noinfo"}
    /\ loader' = LazyExternalLoader(archive, repr)
    /\ last' = Call("new_loader", <<>>, None, NoKey, <<>>, Plain(loader'.exc, None))
    /\ UNCHANGED <<archive, inst, cursor, closeCalls>>

\* loader[key]
LoaderGetItem(key) ==
    /\ loader.status = "ok"
    /\ LET r == LazyGetItem(loader.types, archive, key)
       IN  last' = Call("store_get", <<>>, None, NoKey, key,
                        GetResult(r.exc, r.val, FALSE, 0, 0, r.opens))
    /\ UNCHANGED <<archive, inst, loader, cursor, closeCalls>>

\* zanj._externals[key], as the first ZANJ handler's load does
StoreGetItem(key) ==
    /\ inst.status = "ok"
    /\ LET r == ExternalsGetItem(inst.externals, archive, Str(key))
       IN  last' = Call("store_get", <<>>, None, NoKey, key,
                        GetResult(r.exc, r.val, FALSE, 0, 0, r.opens))
    /\ UNCHANGED <<archive, inst, loader, cursor, closeCalls>>

\* the external store if the dereference took the entry out (pop for [])
ExternalsAfterGetItem_Pop(externals, data, key) ==
    IF KeyTypeOk(data, key) /\ IsDeref(data, key) /\ Index(data, key).exc = ""
          /\ Index(data, key).val.kind = "str"
    THEN [externals EXCEPT
            !.tab = [k \in DOMAIN externals.tab \ {Index(data, key).val.s} |-> externals.tab[k]]]
    ELSE externals

\* the external store after a __getitem__ of a tree node: nothing is assigned
ExternalsAfterGetItem(externals, data, key) == externals

\* a __getitem__ on the node with _data = data, reached by path
GetItemAt(path, data, key) ==
    /\ last' = Call("get", path, data, key, <<>>,
                    TreeGetItem(inst.externals, archive, data, key))
    /\ inst' = [inst EXCEPT !.externals = ExternalsAfterGetItem(inst.externals, data, key)]
    /\ UNCHANGED <<archive, loader, cursor, closeCalls>>

\* LoadedZANJ.__getitem__(key)
FacadeGetItem(key) ==
    /\ inst.status = "ok"
    /\ GetItemAt(<<>>, inst.json_data, key)

\* LoadedZANJ.__iter__()
FacadeIter ==
    /\ inst.status = "ok"
    /\ LET r == TreeIter(inst.json_data)
       IN  last' = Call("iter", <<>>, inst.json_data, NoKey, <<>>, Plain(r.exc, r.val))
    /\ UNCHANGED <<archive, inst, loader, cursor, closeCalls>>

\* LoadedZANJ.__len__()
FacadeLen ==
    /\ inst.status = "ok"
    /\ LET r == TreeLen(inst.json_data)
       IN  last' = Call("len", <<>>, inst.json_data, NoKey, <<>>, Plain(r.exc, r.val))
    /\ UNCHANGED <<archive, inst, loader, cursor, closeCalls>>

\* the caller keeps the tree node the last __getitem__ returned
Hold ==
    /\ last.op = "get" /\ last.exc = "" /\ last.wrapped
    /\ cursor' = [path |-> Append(last.path, last.key), data |-> last.val]
    /\ UNCHANGED <<archive, inst, loader, last, closeCalls>>

\* ZANJLoaderTreeNode.__getitem__(key) on the node the caller holds
NodeGetItem(key) ==
    /\ inst.status = "ok" /\ cursor.path # <<>>
    /\ GetItemAt(cursor.path, cursor.data, key)

\* ZANJLoaderTreeNode.__iter__()
NodeIter ==
    /\ inst.status = "ok" /\ cursor.path # <<>>
    /\ LET r == TreeIter(cursor.data)
       IN  last' = Call("iter", cursor.path, cursor.data, NoKey, <<>>, Plain(r.exc, r.val))
    /\ UNCHANGED <<archive, inst, loader, cursor, closeCalls>>

\* ZANJLoaderTreeNode.__len__()
NodeLen ==
    /\ inst.status = "ok" /\ cursor.path # <<>>
    /\ LET r == TreeLen(cursor.data)
       IN  last' = Call("len", cursor.path, cursor.data, NoKey, <<>>, Plain(r.exc, r.val))
    /\ UNCHANGED <<archive, inst, loader, cursor, closeCalls>>

\* loaded.close(): LoadedZANJ defines no close and typing.Mapping has none,
\* so the attribute lookup fails and nothing is released
Close ==
    /\ inst.status = "ok" /\ closeCalls < MaxClose
    /\ closeCalls' = closeCalls + 1
    /\ last' = Call("close", <<>>, None, NoKey, <<>>, Plain("AttributeError: close", None))
    /\ UNCHANGED <<archive, inst, loader, cursor>>

Next ==
    \/ \E mode \in Modes : Open(mode)
    \/ \E repr \in {"json", "item"} : NewLazyLoader(repr)
    \/ \E key \in StoreKeys : LoaderGetItem(key)
    \/ \E key \in StoreKeys : StoreGetItem(key)
    \/ \E key \in Keys : FacadeGetItem(key)
    \/ FacadeIter
    \/ FacadeLen
    \/ Hold
    \/ \E key \in Keys : NodeGetItem(key)
    \/ NodeIter
    \/ NodeLen
    \/ Close

Spec == Init /\ [][Next]_vars


-----------------------------------------------------------------------------
(* Properties *)

\* the result of successive __getitem__ calls along a non-empty path of keys,
\* starting at the node with _data = data
RECURSIVE PathGet(_, _, _, _)
PathGet(externals, a, data, path) ==
    LET r == TreeGetItem(externals, a, data, path[1])
    IN  IF Len(path) = 1 \/ r.exc # "" THEN r
        ELSE IF ~r.wrapped
        THEN GetResult("TypeError: not a tree node", None, FALSE, 0, 0, <<>>)
        ELSE PathGet(externals, a, r.val, Tail(path))

Outcome(r) == [exc |-> r.exc, val |-> r.val, wrapped |-> r.wrapped]

\* the key paths the two modes are compared on
ComparedPaths == {<<k>> : k \in Keys} \cup {<<k1, k2>> : k1 \in Keys, k2 \in Keys}

\* every declared external has its backing member <key>.<ext>, readable
AllBacked(a) ==
    /\ a.openable /\ a.meta = "ok" /\ a.main = "ok"
    /\ \A i \in 1..Len(a.info) :
          /\ a.info[i].item_type \in DOMAIN EXTERNAL_ITEMS_EXTENSIONS
          /\ MemberName(a.info[i].key, a.info[i].item_type) \in a.members \ a.corrupt

OtherMode(mode) == IF mode = "lazy" THEN "full" ELSE "lazy"

\* C1: once an archive whose declared externals all have backing members has
\* been opened, the open succeeded, opening it in the other mode succeeds too,
\* and along every key path the two instances give equal values.
C1_LazyFullAgree ==
    (inst.status # "none" /\ AllBacked(archive)) =>
        LET other == LoadedZANJ(archive, OtherMode(inst.mode))
        IN  /\ inst.status = "ok"
            /\ other.status = "ok"
            /\ \A p \in ComparedPaths :
                   Outcome(PathGet(inst.externals, archive, inst.json_data, p))
                   = Outcome(PathGet(other.externals, archive, other.json_data, p))

\* some declared key (of a known item type) has no member <key>.<ext>
SomeMemberAbsent(a) ==
    /\ a.openable /\ a.meta = "ok" /\ a.main = "ok"
    /\ \E i \in 1..Len(a.info) :
          /\ a.info[i].item_type \in DOMAIN EXTERNAL_ITEMS_EXTENSIONS
          /\ MemberName(a.info[i].key, a.info[i].item_type) \notin a.members
    /\ \A i \in 1..Len(a.info) :
          a.info[i].item_type \in DOMAIN EXTERNAL_ITEMS_EXTENSIONS

\* C2: a lazy open of an archive that declares an external whose member
\* <key>.<ext> is absent fails with the missing-external error of the lazy
\* store's validation, returns no instance and decodes no payload.
C2_LazyOpenFailsMissingExternal ==
    (inst.status # "none" /\ inst.mode = "lazy" /\ SomeMemberAbsent(archive)) =>
        /\ inst.status = "raise"
        /\ inst.exc = "ValueError: external file not found in archive"
        /\ inst.decoded = 0

KeyKindMismatch(data, key) ==
    \/ data.kind = "list" /\ key.t = "str"
    \/ data.kind = "dict" /\ key.t = "int"

KeyKindMatch(data, key) ==
    \/ data.kind = "list" /\ key.t = "int"
    \/ data.kind = "dict" /\ key.t = "str"

\* C3: a __getitem__ with a str key on a list node or an int key on a dict
\* node raises the invalid-key-type error before the container is indexed or
\* the external store asked; a key of the matching kind never raises it.
C3_KeyTypeMismatch ==
    last.op = "get" =>
        /\ KeyKindMismatch(last.data, last.key) =>
               /\ last.exc = "KeyError: invalid key type"
               /\ last.lookups = 0 /\ last.derefs = 0 /\ last.opens = <<>>
        /\ KeyKindMatch(last.data, last.key) => last.exc # "KeyError: invalid key type"

C3_Witness ==
    /\ last.op = "get" /\ last.path # <<>>
    /\ last.data.kind = "list" /\ last.key.t = "str"
    /\ last.exc = "KeyError: invalid key type"

\* a reference token: a dict whose only key is "$ref", with a str value
IsRefToken(v) ==
    /\ v.kind = "dict" /\ DOMAIN v.items = {"$ref"}
    /\ v.items["$ref"].kind = "str"

\* C4: when the raw value under the key of a __getitem__ is a reference token
\* naming a loaded external key, the call returns the store's value for that
\* key, not the token.
C4_TokenDereferenced ==
    (/\ last.op = "get" /\ KeyTypeOk(last.data, last.key)
     /\ Index(last.data, last.key).exc = ""
     /\ IsRefToken(Index(last.data, last.key).val)
     /\ Index(last.data, last.key).val.items["$ref"].s \in DOMAIN inst.externals.tab)
    => /\ last.exc = ""
       /\ last.val = inst.externals.tab[Index(last.data, last.key).val.items["$ref"].s]

\* the first handler of the chain whose check accepts v, 0 if none does
FirstAccepting(chain, v) ==
    IF \E i \in 1..Len(chain) : HandlerCheck(chain[i], v)
    THEN CHOOSE i \in 1..Len(chain) :
            /\ HandlerCheck(chain[i], v)
            /\ \A j \in 1..(i - 1) : ~HandlerCheck(chain[j], v)
    ELSE 0

\* resolve(value, path) of the handler chain
Resolved(chain, externals, a, v) ==
    IF ~IsContainer(v) \/ FirstAccepting(chain, v) = 0 THEN Return(v)
    ELSE HandlerLoad(chain[FirstAccepting(chain, v)], externals, a, v)

\* C5: the value a __getitem__ returns is the raw value resolved by the
\* handler chain: the load of the first accepting handler, or the raw value
\* when it is no container or no handler accepts it.
C5_FirstHandlerWins ==
    (/\ last.op = "get" /\ KeyTypeOk(last.data, last.key)
     /\ Index(last.data, last.key).exc = "")
    => LET want == Resolved(DEFAULT_LOADER_HANDLERS_ZANJ, inst.externals, archive,
                            Index(last.data, last.key).val)
       IN  last.exc = want.exc /\ last.val = want.val

\* C6: close() succeeds every time it is called, and every access made after
\* a close() fails with the closed-archive error.
C6_ClosedArchive ==
    /\ last.op = "close" => last.exc = ""
    /\ (closeCalls > 0 /\ last.op \in {"get", "iter", "len", "store_get"})
           => last.exc = "ClosedArchiveError"

\* C7: after a failed construction the zip handle is not open; while a
\* constructed instance has not been closed the handle is open.
C7_HandleReleased ==
    /\ inst.status = "raise" => inst.zipf # "open"
    /\ (inst.status = "ok" /\ closeCalls = 0) => inst.zipf = "open"

\* the keys the store of the last store access knows
DeclaredKeys ==
    IF loader.status = "ok" THEN DOMAIN loader.types ELSE DOMAIN inst.externals.tab

\* C8: asking either external store for an undeclared key raises the
\* missing-external error, returns nothing and opens no member.
C8_UndeclaredKeyFails ==
    (last.op = "store_get" /\ last.ekey \notin DeclaredKeys) =>
        /\ last.exc \in {"KeyError: externals",
                        "ValueError: external file not found in archive"}
        /\ last.opens = <<>>

\* C9: on a constructed instance the tree and the external table stay what
\* construction made them, every __getitem__ returns what the calls along
\* its key path return on the instance as constructed, and iteration yields
\* the keys of the node as constructed.
C9_ReadsLeaveStateUnchanged ==
    inst.status = "ok" =>
        LET fresh == LoadedZANJ(archive, inst.mode)
            node == IF last.path = <<>> THEN fresh.json_data
                    ELSE PathGet(fresh.externals, archive, fresh.json_data, last.path).val
        IN  /\ inst = fresh
            /\ last.op = "get" =>
                   Outcome(last) = Outcome(PathGet(fresh.externals, archive, fresh.json_data,
                                                   Append(last.path, last.key)))
            /\ last.op = "iter" =>
                   [exc |-> last.exc, val |-> last.val] = TreeIter(node)
            /\ last.op = "len" =>
                   [exc |-> last.exc, val |-> last.val] = TreeLen(node)

C9_Witness ==
    /\ inst.status = "ok" /\ last.op = "get" /\ Len(last.path) >= 1
    /\ last.derefs = 1 /\ last.exc = "" /\ last.val.kind \in {"ndarray", "list"}

\* C10: every member the code opens to load a declared key k of item type t,
\* in the eager loading of construction or in a get of the lazy store, is
\* named <k>.<ext(t)>.
C10_OpensKeyDotExt ==
    /\ \A i \in 1..Len(inst.opens) :
          InfoType(archive.info, inst.opens[i].key) \in DOMAIN EXTERNAL_ITEMS_EXTENSIONS
          => inst.opens[i].name
                 = MemberName(inst.opens[i].key, InfoType(archive.info, inst.opens[i].key))
    /\ \A i \in 1..Len(last.opens) :
          InfoType(archive.info, last.opens[i].key) \in DOMAIN EXTERNAL_ITEMS_EXTENSIONS
          => last.opens[i].name
                 = MemberName(last.opens[i].key, InfoType(archive.info, last.opens[i].key))

====
